---- MODULE Spec2Model ----
(***************************************************************************)
(* State-machine model of the Freematics telelogger sketch                 *)
(* (firmware_v5/telelogger/telelogger.ino): the readiness flags, the       *)
(* store-and-forward cache, the checksum-framed wire protocol, the remote  *)
(* command dispatcher and the connection-health policy.                    *)
(*                                                                         *)
(* Build configuration modelled: MEMS_MODE != 0, ENABLE_OBD = 1,           *)
(* ENABLE_GPS = 1, STORAGE_TYPE = STORAGE_SD, NET_DEVICE = NET_WIFI.       *)
(* Text is a sequence of one-character strings; "NUL" is the byte 0.       *)
(***************************************************************************)
EXTENDS Integers, Sequences, FiniteSets, TLC

(***************************************************************************)
(* Bytes and C strings                                                     *)
(***************************************************************************)

\* byte value of each character the model uses (sum += *p reads these)
Ascii ==
  [c \in {"NUL"} |-> 0] @@
  ("#" :> 35) @@ ("*" :> 42) @@ ("+" :> 43) @@ ("," :> 44) @@ ("=" :> 61) @@
  ("0" :> 48) @@ ("1" :> 49) @@ ("2" :> 50) @@ ("3" :> 51) @@ ("4" :> 52) @@
  ("5" :> 53) @@ ("6" :> 54) @@ ("7" :> 55) @@ ("8" :> 56) @@ ("9" :> 57) @@
  ("A" :> 65) @@ ("B" :> 66) @@ ("C" :> 67) @@ ("D" :> 68) @@ ("E" :> 69) @@
  ("F" :> 70) @@ ("G" :> 71) @@ ("K" :> 75) @@ ("L" :> 76) @@ ("M" :> 77) @@
  ("N" :> 78) @@ ("O" :> 79) @@ ("P" :> 80) @@ ("R" :> 82) @@ ("S" :> 83) @@ ("T" :> 84) @@
  ("U" :> 85) @@ ("V" :> 86) @@ ("Y" :> 89)

HexDigits == <<"0","1","2","3","4","5","6","7","8","9","A","B","C","D","E","F">>

\* value of one hexadecimal digit, -1 when the character is none
HexVal(c) ==
  IF \E i \in 1..16 : HexDigits[i] = c
  THEN (CHOOSE i \in 1..16 : HexDigits[i] = c) - 1
  ELSE -1

\* the C string held in a buffer: the bytes before the first NUL
CStr(buf) ==
  IF \E i \in 1..Len(buf) : buf[i] = "NUL"
  THEN SubSeq(buf, 1, (CHOOSE i \in 1..Len(buf) :
                         buf[i] = "NUL" /\ \A j \in 1..(i-1) : buf[j] # "NUL") - 1)
  ELSE buf

\* the character at 1-based position i of a C string, NUL at and past its end
CharAt(s, i) == IF i \in 1..Len(s) THEN s[i] ELSE "NUL"

\* hex2uint8(p): the value of the two hexadecimal digits at p; -1 (never
\* equal to an 8-bit sum) when the two characters are not both digits
hex2uint8(s, i) ==
  IF HexVal(CharAt(s, i)) >= 0 /\ HexVal(CharAt(s, i + 1)) >= 0
  THEN HexVal(CharAt(s, i)) * 16 + HexVal(CharAt(s, i + 1))
  ELSE -1

\* uint8_t sum of the first n bytes of s
RECURSIVE Sum8(_, _)
Sum8(s, n) == IF n = 0 THEN 0 ELSE (Sum8(s, n - 1) + Ascii[s[n]]) % 256

\* strrchr(data, c): 1-based position of the last c, 0 when there is none
StrRChr(s, c) ==
  IF \E i \in 1..Len(s) : s[i] = c
  THEN CHOOSE i \in 1..Len(s) : s[i] = c /\ \A j \in (i+1)..Len(s) : s[j] # c
  ELSE 0

\* strstr(data, pat): 1-based position of the first occurrence, 0 when none
StrStr(s, pat) ==
  LET hit(i) == i + Len(pat) - 1 <= Len(s) /\ SubSeq(s, i, i + Len(pat) - 1) = pat
  IN IF \E i \in 1..Len(s) : hit(i)
     THEN CHOOSE i \in 1..Len(s) : hit(i) /\ \A j \in 1..(i-1) : ~hit(j)
     ELSE 0

IsDigit(c) == HexVal(c) \in 0..9

\* atoi / atol at 1-based position i: the decimal digits read there, 0 if none
RECURSIVE AtoiFrom(_, _, _)
AtoiFrom(s, i, acc) ==
  IF IsDigit(CharAt(s, i)) THEN AtoiFrom(s, i + 1, acc * 10 + HexVal(s[i])) ELSE acc

Atoi(s, i) == AtoiFrom(s, i, 0)

(***************************************************************************)
(* Checksum framing                                                        *)
(***************************************************************************)

\* two upper-case hexadecimal digits of an 8-bit value
Hex2(n) == <<HexDigits[(n \div 16) + 1], HexDigits[(n % 16) + 1]>>

\* a sealed frame: the payload, '*', and the 8-bit sum of the payload in hex
Seal(p) == p \o <<"*">> \o Hex2(Sum8(p, Len(p)))

\* verifyChecksum whose sum stops one byte short of the '*'
verifyChecksumShort(buf) ==
  LET data == CStr(buf)
      s    == StrRChr(data, "*")
  IN IF s = 0 THEN [ok |-> FALSE, data |-> data]
     ELSE IF hex2uint8(data, s + 1) = Sum8(data, IF s > 1 THEN s - 2 ELSE 0)
          THEN [ok |-> TRUE, data |-> SubSeq(data, 1, s - 1)]
          ELSE [ok |-> FALSE, data |-> data]

\* bool verifyChecksum(char* data): ok, and the string left in data (cut at
\* the last '*' when the checksum matches)
verifyChecksum(buf) ==
  LET data == CStr(buf)
      s    == StrRChr(data, "*")
  IN IF s = 0 THEN [ok |-> FALSE, data |-> data]
     ELSE IF hex2uint8(data, s + 1) = Sum8(data, s - 1)
          THEN [ok |-> TRUE, data |-> SubSeq(data, 1, s - 1)]
          ELSE [ok |-> FALSE, data |-> data]


\* hex2uint16(data): the value of the leading hexadecimal digits (at most 4)
RECURSIVE Hex16From(_, _, _)
Hex16From(s, i, acc) ==
  IF i <= 4 /\ HexVal(CharAt(s, i)) >= 0
  THEN Hex16From(s, i + 1, acc * 16 + HexVal(s[i]))
  ELSE acc

hex2uint16(s) == Hex16From(s, 1, 0)

\* decimal digits of n, as sprintf("%u") prints them
RECURSIVE ToDec(_)
ToDec(n) == IF n < 10 THEN <<HexDigits[n + 1]>>
            ELSE ToDec(n \div 10) \o <<HexDigits[(n % 10) + 1]>>

(***************************************************************************)
(* Configuration (config.h) and protocol constants (FreematicsONE.h)       *)
(***************************************************************************)

EVENT_LOGIN == 1
EVENT_LOGOUT == 2
EVENT_COMMAND == 3
EVENT_SYNC == 4
EVENT_ACK == 5

MAX_CONN_ERRORS_RECONNECT == 3
MAX_CONN_ERRORS == 5
MAX_OBD_ERRORS == 2
SERVER_SYNC_INTERVAL == 4
DATA_SENDING_INTERVAL == 1000

\* attempts of the retry loops
NOTIFY_ATTEMPTS == 3
ACK_ATTEMPTS == 3
LOGIN_ATTEMPTS == 3
WIFI_ATTEMPTS == 3
SETUP_RETRIES == 3

(***************************************************************************)
(* Bounds of the model                                                     *)
(***************************************************************************)

\* width, in bits, of the model's unsigned words (uint32_t in the firmware)
WordBits == 20
\* samples the RAM cache holds (RAM_CACHE_SIZE, counted in entries)
CacheCap == 6
\* device uptime, in seconds, up to which the model runs
MaxUptime == 8

\* bytes of the payloads of the checksum study
MaxPayload == 3

Word == 2 ^ WordBits
WAdd(a, b) == (a + b) % Word
WSub(a, b) == (a - b + Word) % Word
WMul(a, b) == (a * b) % Word

(***************************************************************************)
(* Readiness flags                                                         *)
(***************************************************************************)

STATE_STORAGE_READY == "STORAGE"
STATE_OBD_READY == "OBD"
STATE_GPS_READY == "GPS"
STATE_MEMS_READY == "MEMS"
STATE_NET_READY == "NET"
STATE_CONNECTED == "CONNECTED"
STATE_ALL_GOOD == "ALL_GOOD"

checkState(s, flags) == flags \subseteq s.m_state
setState(s, flags) == [s EXCEPT !.m_state = @ \cup flags]
clearState(s, flags) == [s EXCEPT !.m_state = @ \ flags]

\* one observed step of the running handler, appended to its log
EmitMsg(s, op, a, ok, msg) ==
  [s EXCEPT !.ev = Append(@, [op |-> op, a |-> a, ok |-> ok, msg |-> msg])]
Emit(s, op, a, ok) == EmitMsg(s, op, a, ok, "")

(***************************************************************************)
(* Sample cache (CStorageRAM)                                              *)
(***************************************************************************)

IsSample(e) == e.k \notin {"header", "tailer"}
Samples(buf) == SelectSeq(buf, IsSample)

\* cache.init(size) / cache.uninit(): an empty buffer
cacheInit == <<>>
\* cache.header(feedid): purge, then the header of the feed
cacheHeader(feedid) == <<[k |-> "header", v |-> feedid]>>
\* cache.log(pid, value): append one sample, dropped when the cache is full
cacheLog(buf, pid) ==
  IF Len(Samples(buf)) < CacheCap THEN Append(buf, [k |-> pid, v |-> 0]) ELSE buf
\* cache.tailer(): append the checksum trailer
cacheTailer(buf) == Append(buf, [k |-> "tailer", v |-> Len(buf)])
\* cache.untailer(): strip the trailer
cacheUntailer(buf) ==
  IF Len(buf) > 0 /\ buf[Len(buf)].k = "tailer" THEN SubSeq(buf, 1, Len(buf) - 1) ELSE buf
\* cache.samples()
cacheSamples(buf) == Len(Samples(buf))

log(s, pid) == [s EXCEPT !.cache = cacheLog(@, pid)]


(***************************************************************************)
(* Requests to the server                                                  *)
(***************************************************************************)

\* sprintf(pattern, "EV=%u", event)
EvPattern(event) == <<"E", "V", "=">> \o ToDec(event)

\* acceptReply without the test for the event pattern
acceptReplyAnyEvent(s, event, data) ==
  [s |-> [(IF event = EVENT_LOGIN
           THEN [s EXCEPT !.feedid = hex2uint16(data)]
           ELSE s) EXCEPT !.connErrors = 0],
   ok |-> TRUE]

\* What notifyServer does with a checksum-valid reply: reject it when it
\* lacks the event pattern, else take the feed id (LOGIN) and clear connErrors
acceptReply(s, event, data) ==
  IF StrStr(data, EvPattern(event)) = 0
  THEN [s |-> s, ok |-> FALSE]
  ELSE [s |-> [(IF event = EVENT_LOGIN
                THEN [s EXCEPT !.feedid = hex2uint16(data)]
                ELSE s) EXCEPT !.connErrors = 0],
        ok |-> TRUE]

\* One pass of notifyServer's attempt loop, from attempt a on.  script[a] is
\* what the transport does at attempt a: send (netSend's result), rx (whether
\* netReceive returns a datagram) and reply (its bytes).
RECURSIVE notifyAttempts(_, _, _, _)
notifyAttempts(s, event, script, a) ==
  IF a > NOTIFY_ATTEMPTS THEN [s |-> s, ok |-> FALSE]
  ELSE
    LET o  == script[a]
        s1 == Emit(s, "netSend", event, o.send)
    IN IF ~o.send THEN notifyAttempts(s1, event, script, a + 1)
       ELSE IF event = EVENT_ACK THEN [s |-> s1, ok |-> TRUE]
       ELSE IF ~o.rx THEN notifyAttempts(Emit(s1, "netReceive", event, FALSE), event, script, a + 1)
       ELSE
         LET v  == verifyChecksum(o.reply)
             s2 == Emit(Emit(s1, "netReceive", event, TRUE), "checksum", event, v.ok)
         IN IF ~v.ok THEN notifyAttempts(s2, event, script, a + 1)
            ELSE LET r == acceptReply(s2, event, v.data)
                 IN IF r.ok THEN r ELSE notifyAttempts(r.s, event, script, a + 1)

\* bool notifyServer(byte event, const char* serverKey, const char* payload)
notifyServer(s, event, script) == notifyAttempts(s, event, script, 1)

(***************************************************************************)
(* Remote commands                                                         *)
(***************************************************************************)

StartsWith(s, pre) == Len(s) >= Len(pre) /\ SubSeq(s, 1, Len(pre)) = pre

\* String executeCommand(const char* cmd): the state after it, and its result.
\* obdOk: whether the vehicle bus answers a forwarded OBD command.
executeCommand(s, cmd, obdOk) ==
  IF StartsWith(cmd, <<"L", "E", "D">>) /\ CharAt(cmd, 5) # "NUL"
  THEN [s |-> [s EXCEPT !.m_ledMode = Atoi(cmd, 5) % 256], result |-> "OK"]
  ELSE IF cmd = <<"R", "E", "B", "O", "O", "T">>
  THEN [s |-> [(IF checkState(s, {STATE_STORAGE_READY})
                THEN clearState(s, {STATE_STORAGE_READY}) ELSE s)
               EXCEPT !.restart = TRUE],
        result |-> ""]
  ELSE IF cmd = <<"S", "T", "A", "N", "D", "B", "Y">>
  THEN [s |-> clearState(s, {STATE_ALL_GOOD}), result |-> "OK"]
  ELSE IF StartsWith(cmd, <<"O", "B", "D">>) /\ CharAt(cmd, 5) # "NUL"
  THEN [s |-> s, result |-> IF obdOk THEN "REPLY" ELSE "TIMEOUT"]
  ELSE [s |-> s, result |-> ""]

\* the loop that sends one ACK: up to ACK_ATTEMPTS calls of notifyServer
RECURSIVE sendAck(_, _, _)
sendAck(s, scripts, a) ==
  IF a > ACK_ATTEMPTS THEN s
  ELSE LET r == notifyServer(s, EVENT_ACK, scripts[a])
       IN IF r.ok THEN r.s ELSE sendAck(r.s, scripts, a + 1)

\* What processCommand does once TK= and CMD= are found: a token above
\* lastCmdToken is executed and acknowledged with the result, any other is
\* acknowledged as a duplicate.  lastCmdToken is not assigned.
dispatchCommand(s, token, cmd, in) ==
  IF token > s.lastCmdToken
  THEN LET x  == executeCommand(Emit(s, "execute", token, TRUE), cmd, in.obdOk)
           s1 == [x.s EXCEPT !.reexec = @ \/ token \in s.executed,
                             !.executed = @ \cup {token}]
       IN IF s1.restart THEN s1
          ELSE sendAck(EmitMsg(s1, "ack", token, TRUE, x.result), in.ack, 1)
  ELSE sendAck(EmitMsg(s, "ack", token, FALSE, "DUP=1"), in.ack, 1)

\* processCommand that takes a missing token for token 0
processCommandAnyToken(s, data, in) ==
  LET p == StrStr(data, <<"T", "K", "=">>)
      q == StrStr(data, <<"C", "M", "D", "=">>)
  IN IF q = 0 THEN s
     ELSE dispatchCommand(s, IF p = 0 THEN 0 ELSE Atoi(data, p + 3),
                          SubSeq(data, q + 4, Len(data)), in)

\* bool processCommand(char* data)
processCommand(s, data, in) ==
  LET p == StrStr(data, <<"T", "K", "=">>)
      q == StrStr(data, <<"C", "M", "D", "=">>)
  IN IF p = 0 THEN s
     ELSE IF q = 0 THEN s
     ELSE dispatchCommand(s, Atoi(data, p + 3), SubSeq(data, q + 4, Len(data)), in)


(***************************************************************************)
(* Sensor polling                                                          *)
(***************************************************************************)

\* readPID's effect on the bus error counter: a failed read counts, a
\* successful one clears the count
obdRead(s, ok) == [s EXCEPT !.errors = IF ok THEN 0 ELSE @ + 1]

\* readSpeed with = in place of +=
readSpeedNoSum(s, value) ==
  IF value >= 0
  THEN [obdRead(s, TRUE) EXCEPT
          !.distance = (WMul(value + s.lastSpeed, WSub(s.now, s.lastSpeedTime))
                          \div 3600) \div 2,
          !.lastSpeedTime = s.now,
          !.lastSpeed = value]
  ELSE obdRead(s, FALSE)

\* int readSpeed(): value is the speed read, -1 when the read fails
readSpeed(s, value) ==
  IF value >= 0
  THEN [obdRead(s, TRUE) EXCEPT
          !.distance = WAdd(@, (WMul(value + s.lastSpeed, WSub(s.now, s.lastSpeedTime))
                                  \div 3600) \div 2),
          !.lastSpeedTime = s.now,
          !.lastSpeed = value]
  ELSE obdRead(s, FALSE)

pids == <<"RPM", "ENGINE_LOAD", "THROTTLE">>
pidTier2 == <<"INTAKE_TEMP", "COOLANT_TEMP", "BAROMETRIC", "AMBIENT_TEMP", "ENGINE_FUEL_RATE">>

\* the loop over pids: each one that reads is logged
RECURSIVE pollPids(_, _, _)
pollPids(s, okSet, i) ==
  IF i > Len(pids) THEN s
  ELSE pollPids(IF pids[i] \in okSet
                THEN log(obdRead(s, TRUE), pids[i])
                ELSE obdRead(s, FALSE), okSet, i + 1)

\* pidTier2[count / 50] after count++; past the table the byte read is
\* whatever lies behind it (stray)
tier2Pid(count, stray) ==
  IF (count \div 50) + 1 \in 1..Len(pidTier2) THEN pidTier2[(count \div 50) + 1] ELSE stray

\* the low-priority poll: if ((count++ % 50) == 0) { ... }
pollTier2(s, in) ==
  LET s1 == [s EXCEPT !.count = (@ + 1) % 256]
  IN IF s.count % 50 = 0
     THEN LET pid == tier2Pid(s1.count, in.stray)
              s2  == Emit(s1, "tier2", s1.count \div 50, in.tier2Ok)
          IN IF in.tier2Ok THEN log(obdRead(s2, TRUE), pid) ELSE obdRead(s2, FALSE)
     ELSE s1

\* void processOBD()
processOBD(s, in) ==
  LET s1 == readSpeed(s, in.speed)
  IN IF in.speed = -1 THEN s1
     ELSE pollTier2(pollPids(log(log(s1, "SPEED"), "TRIP_DISTANCE"), in.pids, 1), in)

\* void processGPS(): a fix is logged when its time differs from the last one
processGPS(s, gd) ==
  IF gd.ok /\ gd.date # 0 /\ s.lastUTC # gd.time % 65536
  THEN LET day == (gd.date \div 10000) % 256
           s1  == log(s, "GPS_TIME")
           s2  == IF s.lastGPSDay # day
                  THEN [log(s1, "GPS_DATE") EXCEPT !.lastGPSDay = day]
                  ELSE s1
       IN [log(log(log(log(log(s2, "GPS_LATITUDE"), "GPS_LONGITUDE"),
                   "GPS_ALTITUDE"), "GPS_SPEED"), "GPS_SAT_COUNT")
           EXCEPT !.lastUTC = gd.time % 65536]
  ELSE s

\* void processMEMS()
processMEMS(s) == log(s, "ACC")

\* the sensor part of CTeleLogger::loop(), in the order of the code (sample
\* values and the timestamps cache.timestamp() writes are not modelled)
pollSensors(s, in) ==
  LET s1 == IF s.txCount % 100 = 1 THEN log(s, "DEVICE_TEMP") ELSE s
      s2 == IF checkState(s1, {STATE_OBD_READY}) THEN processOBD(s1, in) ELSE s1
      s3 == IF checkState(s2, {STATE_GPS_READY}) THEN processGPS(s2, in.gps) ELSE s2
      s4 == log(s3, "BATTERY_VOLTAGE")
      s5 == IF checkState(s4, {STATE_MEMS_READY}) THEN processMEMS(s4) ELSE s4
  IN Emit(s5, "polled", cacheSamples(s5.cache), TRUE)

(***************************************************************************)
(* The run loop                                                            *)
(***************************************************************************)

\* checkIncoming with the result of verifyChecksum ignored
checkIncomingUnverified(s, t, in) ==
  IF ~in.dg.rx THEN s
  ELSE
    LET v  == verifyChecksum(in.dg.data)
        s1 == Emit(s, "datagram", 0, v.ok)
        p  == StrStr(v.data, <<"E", "V", "=">>)
    IN IF p = 0 THEN s1
       ELSE IF Atoi(v.data, p + 3) = EVENT_COMMAND THEN processCommand(s1, v.data, in)
       ELSE IF Atoi(v.data, p + 3) = EVENT_SYNC
            THEN Emit([s1 EXCEPT !.lastSyncTime = t], "sync", 0, TRUE)
       ELSE s1

\* the inbound datagram of this iteration: do { ... } while(0)
checkIncoming(s, t, in) ==
  IF ~in.dg.rx THEN s
  ELSE
    LET v  == verifyChecksum(in.dg.data)
        s1 == Emit(s, "datagram", 0, v.ok)
        p  == StrStr(v.data, <<"E", "V", "=">>)
    IN IF ~v.ok THEN s1
       ELSE IF p = 0 THEN s1
       ELSE IF Atoi(v.data, p + 3) = EVENT_COMMAND THEN processCommand(s1, v.data, in)
       ELSE IF Atoi(v.data, p + 3) = EVENT_SYNC
            THEN Emit([s1 EXCEPT !.lastSyncTime = t], "sync", 0, TRUE)
       ELSE s1

\* afterSend with the trailer left in place when the send fails
afterSendKeepsTailer(s, sent) ==
  IF sent
  THEN Emit([s EXCEPT !.connErrors = 0,
                      !.txCount = @ + 1,
                      !.cache = cacheHeader(s.feedid)], "header", s.feedid, TRUE)
  ELSE Emit([s EXCEPT !.connErrors = @ + 1], "untailer", 0, TRUE)

\* what follows netSend of the sealed cache: purge and reopen on success,
\* count the error and strip the trailer on failure
afterSend(s, sent) ==
  IF sent
  THEN Emit([s EXCEPT !.connErrors = 0,
                      !.txCount = @ + 1,
                      !.cache = cacheHeader(s.feedid)], "header", s.feedid, TRUE)
  ELSE Emit([s EXCEPT !.connErrors = @ + 1,
                      !.cache = cacheUntailer(@)], "untailer", 0, TRUE)

\* reconnect with > in place of >=
reconnectLate(s, in) ==
  IF s.connErrors > MAX_CONN_ERRORS_RECONNECT
  THEN [Emit(Emit(s, "netClose", 0, TRUE), "netOpen", 0, in.reopenOk)
        EXCEPT !.lastSyncTime = 0]
  ELSE s

\* if (getConnErrors() >= MAX_CONN_ERRORS_RECONNECT) { netClose(); netOpen(); ... }
reconnect(s, in) ==
  IF s.connErrors >= MAX_CONN_ERRORS_RECONNECT
  THEN [Emit(Emit(s, "netClose", 0, TRUE), "netOpen", 0, in.reopenOk)
        EXCEPT !.lastSyncTime = 0]
  ELSE s

\* one data chunk: seal, send, rotate or unseal, reconnect
sendChunk(s, t, in) ==
  LET s1 == Emit([s EXCEPT !.cache = cacheTailer(@), !.presend = s.cache], "tailer", 0, TRUE)
      s2 == afterSend(Emit(s1, "netSend", 0, in.sendOk), in.sendOk)
  IN [reconnect(s2, in) EXCEPT !.lastSentTime = t]

\* transmit that sends before it looks at the time of the last SYNC
transmitFirst(s, t, in) ==
  IF WSub(t, s.lastSentTime) >= DATA_SENDING_INTERVAL /\ cacheSamples(s.cache) > 0
  THEN sendChunk(s, t, in)
  ELSE IF SERVER_SYNC_INTERVAL # 0 /\ WSub(t, s.lastSyncTime) >= SERVER_SYNC_INTERVAL * 1000
  THEN Emit([s EXCEPT !.connErrors = @ + 1], "nosync", 0, TRUE)
  ELSE s

\* transmit that reports a missing SYNC without counting it
transmitUncounted(s, t, in) ==
  IF SERVER_SYNC_INTERVAL # 0 /\ WSub(t, s.lastSyncTime) >= SERVER_SYNC_INTERVAL * 1000
  THEN Emit(s, "nosync", 0, TRUE)
  ELSE IF WSub(t, s.lastSentTime) >= DATA_SENDING_INTERVAL /\ cacheSamples(s.cache) > 0
  THEN sendChunk(s, t, in)
  ELSE s

\* the health policy of the run loop
transmit(s, t, in) ==
  IF SERVER_SYNC_INTERVAL # 0 /\ WSub(t, s.lastSyncTime) >= SERVER_SYNC_INTERVAL * 1000
  THEN Emit([s EXCEPT !.connErrors = @ + 1], "nosync", 0, TRUE)
  ELSE IF WSub(t, s.lastSentTime) >= DATA_SENDING_INTERVAL /\ cacheSamples(s.cache) > 0
  THEN sendChunk(s, t, in)
  ELSE s

\* checkObdErrors that leaves STATE_ALL_GOOD set
checkObdErrorsKeepsGood(s) ==
  IF s.errors > MAX_OBD_ERRORS
  THEN clearState(s, {STATE_OBD_READY})
  ELSE s

\* if (errors > MAX_OBD_ERRORS) { reset(); clearState(...); }
checkObdErrors(s) ==
  IF s.errors > MAX_OBD_ERRORS
  THEN clearState(s, {STATE_OBD_READY, STATE_ALL_GOOD})
  ELSE s

\* one complete line on the serial port is executed as a command
serialInput(s, in) ==
  IF Len(in.serial) > 0
  THEN executeCommand(Emit(s, "serial", 0, TRUE), in.serial, in.obdOk).s
  ELSE s

\* loop that transmits before it polls the sensors and reads the datagram
loopSendsFirst(s, in) ==
  LET s1 == transmit(s, s.now, in)
      s2 == checkIncoming(pollSensors(s1, in), s.now, in)
      s3 == checkObdErrors(s2)
  IN IF s2.restart THEN s2 ELSE serialInput(s3, in)

\* void CTeleLogger::loop(); a restart ends it where it happens
loop(s, in) ==
  LET s1 == pollSensors(s, in)
      s2 == checkIncoming(s1, s.now, in)
      s3 == checkObdErrors(transmit(s2, s.now, in))
  IN IF s2.restart THEN s2 ELSE serialInput(s3, in)


(***************************************************************************)
(* Set-up, login and standby                                               *)
(***************************************************************************)

\* bool login(): script[a] is what attempt a meets: open (netOpen's result)
\* and notify (the transport's behaviour during notifyServer)
RECURSIVE loginAttempts(_, _, _)
loginAttempts(s, script, a) ==
  IF a > LOGIN_ATTEMPTS THEN [s |-> s, ok |-> FALSE]
  ELSE
    LET s1 == Emit(Emit(s, "login", a, TRUE), "netOpen", 0, script[a].open)
    IN IF ~script[a].open THEN loginAttempts(s1, script, a + 1)
       ELSE LET r == notifyServer(s1, EVENT_LOGIN, script[a].notify)
            IN IF ~r.ok THEN loginAttempts(Emit(r.s, "netClose", 0, TRUE), script, a + 1)
               ELSE r

\* login that gives up after its first attempt
loginOnce(s, script) == loginAttempts(s, script, LOGIN_ATTEMPTS)

login(s, script) == loginAttempts(s, script, 1)

\* the WIFI bring-up loop of setup(): NET_READY at the first attempt that works
RECURSIVE wifiAttempts(_, _, _)
wifiAttempts(s, wifi, a) ==
  IF a > WIFI_ATTEMPTS THEN s
  ELSE IF wifi[a] THEN setState(Emit(s, "netBegin", a, TRUE), {STATE_NET_READY})
  ELSE wifiAttempts(Emit(s, "netBegin", a, FALSE), wifi, a + 1)

\* setup() up to the network bring-up: the three sensor sources
setupSensors(s, in) ==
  LET s1 == [clearState(s, {STATE_ALL_GOOD}) EXCEPT !.distance = 0]
      s2 == IF ~checkState(s1, {STATE_MEMS_READY}) /\ in.memsOk
            THEN setState(s1, {STATE_MEMS_READY}) ELSE s1
  IN IF ~checkState(s2, {STATE_OBD_READY}) /\ ~in.obdInit
     THEN [s |-> s2, ok |-> FALSE]
     ELSE LET s3 == IF ~checkState(s2, {STATE_OBD_READY})
                    THEN [setState(s2, {STATE_OBD_READY}) EXCEPT !.errors = 0]
                    ELSE s2
              s4 == IF ~checkState(s3, {STATE_GPS_READY}) /\ in.gpsOk
                    THEN setState(s3, {STATE_GPS_READY}) ELSE s3
          IN [s |-> s4, ok |-> TRUE]

\* setup() after a successful login
setupFinish(s, in) ==
  LET s1 == [setState(s, {STATE_CONNECTED}) EXCEPT
               !.cache = cacheHeader(s.feedid), !.lastSyncTime = s.now]
      s2 == IF ~checkState(s1, {STATE_STORAGE_READY}) /\ in.storeOk
            THEN setState(s1, {STATE_STORAGE_READY}) ELSE s1
  IN setState(s2, {STATE_ALL_GOOD})

\* bool CTeleLogger::setup()
setup(s, in) ==
  LET a == setupSensors(Emit(s, "setup", 0, TRUE), in)
  IN IF ~a.ok THEN a
     ELSE LET s1 == wifiAttempts(a.s, in.wifi, 1)
          IN IF ~checkState(s1, {STATE_NET_READY}) THEN [s |-> s1, ok |-> FALSE]
             ELSE LET r == login([s1 EXCEPT !.txCount = 0, !.cache = cacheInit], in.login)
                  IN IF ~r.ok THEN r
                     ELSE [s |-> setupFinish(r.s, in), ok |-> TRUE]

\* void shutDownNet()
shutDownNet(s) ==
  clearState(Emit(Emit(s, "netClose", 0, TRUE), "netEnd", 0, TRUE), {STATE_NET_READY})

\* standby that ends the trip whatever brought it
standbyEndsTrip(s, in) ==
  LET s0 == Emit(s, "standby", 0, TRUE)
      s1 == IF checkState(s0, {STATE_NET_READY})
            THEN shutDownNet(IF checkState(s0, {STATE_CONNECTED})
                             THEN notifyServer(s0, EVENT_LOGOUT, in.logout).s
                             ELSE s0)
            ELSE s0
      s2 == IF checkState(s1, {STATE_STORAGE_READY})
            THEN [clearState(s1, {STATE_STORAGE_READY}) EXCEPT !.cache = cacheInit]
            ELSE s1
  IN clearState([s2 EXCEPT !.feedid = 0],
                {STATE_OBD_READY, STATE_GPS_READY, STATE_NET_READY, STATE_CONNECTED})

\* standby that logs out whenever the link is ready
standbyLogsOut(s, in) ==
  LET s0 == Emit(s, "standby", 0, TRUE)
      s1 == IF checkState(s0, {STATE_NET_READY})
            THEN shutDownNet(notifyServer(s0, EVENT_LOGOUT, in.logout).s)
            ELSE s0
      s2 == IF checkState(s1, {STATE_STORAGE_READY})
            THEN [clearState(s1, {STATE_STORAGE_READY}) EXCEPT !.cache = cacheInit]
            ELSE s1
      s3 == IF s2.errors > MAX_OBD_ERRORS THEN [s2 EXCEPT !.feedid = 0] ELSE s2
  IN clearState(s3, {STATE_OBD_READY, STATE_GPS_READY, STATE_NET_READY, STATE_CONNECTED})

\* void standby(), up to its wait for motion
standby(s, in) ==
  LET s0 == Emit(s, "standby", 0, TRUE)
      s1 == IF checkState(s0, {STATE_NET_READY})
            THEN shutDownNet(IF checkState(s0, {STATE_CONNECTED})
                             THEN notifyServer(s0, EVENT_LOGOUT, in.logout).s
                             ELSE s0)
            ELSE s0
      s2 == IF checkState(s1, {STATE_STORAGE_READY})
            THEN [clearState(s1, {STATE_STORAGE_READY}) EXCEPT !.cache = cacheInit]
            ELSE s1
      s3 == IF s2.errors > MAX_OBD_ERRORS THEN [s2 EXCEPT !.feedid = 0] ELSE s2
  IN clearState(s3, {STATE_OBD_READY, STATE_GPS_READY, STATE_NET_READY, STATE_CONNECTED})


(***************************************************************************)
(* State                                                                   *)
(***************************************************************************)

VARIABLES
  pc,            \* where the sketch's loop() is: boot, run, wake, recover
  n,             \* the retry index of loop()'s set-up loop
  m_state,       \* the readiness flags that are set
  connErrors,    \* the connection error counter
  txCount,       \* data chunks sent since setup()
  feedid,        \* the feed identifier the server assigned
  lastCmdToken,  \* the last processed command token
  m_ledMode,     \* the indicator mode
  now,           \* millis()
  lastSentTime, lastSyncTime, lastSpeedTime, lastSpeed, distance,
  cache,         \* the sample cache's buffer
  errors,        \* the vehicle bus's read errors
  count,         \* processOBD's static counter
  lastUTC, lastGPSDay,   \* processGPS's statics
  ev,            \* observation: the steps of the handler that ran last
  executed,      \* observation: tokens processCommand executed since boot
  reexec,        \* observation: a token was executed a second time
  streak,        \* observation: failed send cycles in a row, from connErrors = 0
  rebuilds,      \* observation: link rebuilds of the run loop during the streak
  presend,       \* observation: the cache as it was when last sealed
  frame,         \* checksum study: the frame under test
  sealed,        \* checksum study: the frame as sealed
  verdict,       \* checksum study: none, accepted, rejected
  call           \* notifyServer study: the call, what it meets and its result

devVars == <<pc, n, m_state, connErrors, txCount, feedid, lastCmdToken, m_ledMode, now,
             lastSentTime, lastSyncTime, lastSpeedTime, lastSpeed, distance, cache,
             errors, count, lastUTC, lastGPSDay, ev, executed, reexec, streak,
             rebuilds, presend>>
chkVars == <<frame, sealed, verdict>>
vars == <<devVars, chkVars, call>>

\* the device after power-up or ESP.restart(), before the sketch's setup()
InitState ==
  [pc |-> "boot", n |-> 0, m_state |-> {}, connErrors |-> 0, txCount |-> 0, feedid |-> 0,
   lastCmdToken |-> 0, m_ledMode |-> 0, now |-> 0, lastSentTime |-> 0,
   lastSyncTime |-> 0, lastSpeedTime |-> 0, lastSpeed |-> 0, distance |-> 0,
   cache |-> <<>>, errors |-> 0, count |-> 0, lastUTC |-> 0, lastGPSDay |-> 0,
   ev |-> <<>>, executed |-> {}, reexec |-> FALSE, streak |-> 0, rebuilds |-> 0,
   presend |-> <<>>, restart |-> FALSE]

\* the current state as a record, with an empty log and the clock advanced by dt
Cur(dt) ==
  [pc |-> pc, n |-> n, m_state |-> m_state, connErrors |-> connErrors,
   txCount |-> txCount, feedid |-> feedid, lastCmdToken |-> lastCmdToken,
   m_ledMode |-> m_ledMode, now |-> WAdd(now, dt), lastSentTime |-> lastSentTime,
   lastSyncTime |-> lastSyncTime, lastSpeedTime |-> lastSpeedTime,
   lastSpeed |-> lastSpeed, distance |-> distance, cache |-> cache, errors |-> errors,
   count |-> count, lastUTC |-> lastUTC, lastGPSDay |-> lastGPSDay, ev |-> <<>>,
   executed |-> executed, reexec |-> reexec, streak |-> streak, rebuilds |-> rebuilds,
   presend |-> presend, restart |-> FALSE]

\* the next state is s, or the power-up state when s ends in ESP.restart()
AssignDev(s0) ==
  LET s == IF s0.restart THEN InitState ELSE s0
  IN /\ pc' = s.pc /\ n' = s.n /\ m_state' = s.m_state /\ connErrors' = s.connErrors
     /\ txCount' = s.txCount /\ feedid' = s.feedid /\ lastCmdToken' = s.lastCmdToken
     /\ m_ledMode' = s.m_ledMode /\ now' = s.now /\ lastSentTime' = s.lastSentTime
     /\ lastSyncTime' = s.lastSyncTime /\ lastSpeedTime' = s.lastSpeedTime
     /\ lastSpeed' = s.lastSpeed /\ distance' = s.distance /\ cache' = s.cache
     /\ errors' = s.errors /\ count' = s.count /\ lastUTC' = s.lastUTC
     /\ lastGPSDay' = s.lastGPSDay /\ ev' = s.ev /\ executed' = s.executed
     /\ reexec' = s.reexec /\ streak' = s.streak /\ rebuilds' = s.rebuilds
     /\ presend' = s.presend

Assign(s) == AssignDev(s) /\ UNCHANGED <<chkVars, call>>

Has(evs, op) == \E i \in 1..Len(evs) : evs[i].op = op
HasOk(evs, op, a, ok) == \E i \in 1..Len(evs) : evs[i].op = op /\ evs[i].a = a /\ evs[i].ok = ok
Count(evs, op, a) == Cardinality({i \in 1..Len(evs) : evs[i].op = op /\ evs[i].a = a})

\* observation of the run loop: the failed send cycles in a row since the
\* error counter was zero, and the link rebuilds among them
track(s0, s) ==
  IF HasOk(s.ev, "netSend", 0, FALSE) /\ (s0.connErrors = 0 \/ s0.streak > 0)
  THEN [s EXCEPT !.streak = IF s0.connErrors = 0 THEN 1 ELSE s0.streak + 1,
                 !.rebuilds = (IF s0.connErrors = 0 THEN 0 ELSE s0.rebuilds)
                              + Count(s.ev, "netClose", 0)]
  ELSE [s EXCEPT !.streak = 0, !.rebuilds = 0]

untrack(s) == [s EXCEPT !.streak = 0, !.rebuilds = 0]

(***************************************************************************)
(* The sketch: setup() once, then loop() for ever                          *)
(***************************************************************************)

\* void setup(): logger.setup(), its result ignored
BootOp(dt, in) ==
  /\ pc = "boot"
  /\ Assign([untrack(setup(Cur(dt), in).s) EXCEPT !.pc = "run"])

\* loop(), not all good: logger.standby(), then the set-up loop
StandbyOp(dt, in) ==
  /\ pc = "run"
  /\ STATE_ALL_GOOD \notin m_state
  /\ now + dt <= MaxUptime * 1000
  /\ Assign([untrack(standby(Cur(dt), in)) EXCEPT !.pc = "wake", !.n = 0])

\* SetupRetryOp that goes on to the next round after a set-up that worked
SetupRetryOpNoBreak(dt, in) ==
  /\ pc = "wake"
  /\ now + dt <= MaxUptime * 1000
  /\ LET s == untrack(setup(Cur(dt), in).s)
     IN Assign([s EXCEPT !.now = WAdd(@, 3000),
                         !.n = @ + 1,
                         !.pc = IF s.n + 1 < SETUP_RETRIES THEN "wake" ELSE "run"])

\* one round of for (n = 0; n < 3; n++) { logger.setup(); ... sleep(3000); }
SetupRetryOp(dt, in) ==
  /\ pc = "wake"
  /\ now + dt <= MaxUptime * 1000
  /\ LET s == untrack(setup(Cur(dt), in).s)
     IN IF checkState(s, {STATE_ALL_GOOD})
        THEN Assign([s EXCEPT !.pc = "run"])
        ELSE Assign([s EXCEPT !.now = WAdd(@, 3000),
                              !.n = @ + 1,
                              !.pc = IF s.n + 1 < SETUP_RETRIES THEN "wake" ELSE "run"])

\* loop(), too many connection errors: logger.shutDownNet() ...
ShutDownOp ==
  /\ pc = "run"
  /\ STATE_ALL_GOOD \in m_state
  /\ connErrors >= MAX_CONN_ERRORS
  /\ Assign([untrack(shutDownNet(Cur(0))) EXCEPT !.pc = "recover"])

\* RecoverOp that returns to the outer loop without logger.setup()
RecoverOpNoSetup(dt, in) ==
  /\ pc = "recover"
  /\ now + dt <= MaxUptime * 1000
  /\ Assign([untrack([Cur(dt) EXCEPT !.ev = ev]) EXCEPT !.pc = "run"])

\* ... then logger.setup()
RecoverOp(dt, in) ==
  /\ pc = "recover"
  /\ now + dt <= MaxUptime * 1000
  /\ Assign([untrack(setup([Cur(dt) EXCEPT !.ev = ev], in).s) EXCEPT !.pc = "run"])

\* RunLoopOp entered whatever the number of connection errors
RunLoopOpNoBudget(dt, in) ==
  /\ pc = "run"
  /\ STATE_ALL_GOOD \in m_state
  /\ now + dt <= MaxUptime * 1000
  /\ Assign(track(Cur(0), loop(Cur(dt), in)))

\* loop(), all good: logger.loop()
RunLoopOp(dt, in) ==
  /\ pc = "run"
  /\ STATE_ALL_GOOD \in m_state
  /\ connErrors < MAX_CONN_ERRORS
  /\ now + dt <= MaxUptime * 1000
  /\ Assign(track(Cur(0), loop(Cur(dt), in)))


(***************************************************************************)
(* What the environment may do                                             *)
(***************************************************************************)

\* datagrams of the server, before sealing
CmdLed == <<"E", "V", "=", "3", ",", "T", "K", "=", "5", ",", "C", "M", "D", "=", "L", "E", "D", "=", "2">>
CmdStandby == <<"E", "V", "=", "3", ",", "T", "K", "=", "7", ",", "C", "M", "D", "=", "S", "T", "A", "N", "D", "B", "Y">>
CmdReboot == <<"E", "V", "=", "3", ",", "T", "K", "=", "9", ",", "C", "M", "D", "=", "R", "E", "B", "O", "O", "T">>
CmdNoToken == <<"E", "V", "=", "3", ",", "C", "M", "D", "=", "L", "E", "D", "=", "2">>
CmdNoText == <<"E", "V", "=", "3", ",", "T", "K", "=", "5">>
SyncMsg == <<"E", "V", "=", "4">>
LoginReply == <<"2", "#", "E", "V", "=", "1">>
LoginWrongEvent == <<"2", "#", "E", "V", "=", "2">>
LogoutReply == <<"E", "V", "=", "2">>

\* a frame whose trailer is not the sum of its payload
Corrupt(p) == p \o <<"*">> \o Hex2((Sum8(p, Len(p)) + 1) % 256)

NoDatagram == [rx |-> FALSE, data |-> <<>>]
Datagram(d) == [rx |-> TRUE, data |-> d]

\* one attempt of notifyServer: the send fails, no reply comes, or a reply comes
SendFails == [send |-> FALSE, rx |-> FALSE, reply |-> <<>>]
NoReply == [send |-> TRUE, rx |-> FALSE, reply |-> <<>>]
Reply(d) == [send |-> TRUE, rx |-> TRUE, reply |-> d]
Always(o) == <<o, o, o>>

NoFix == [ok |-> FALSE, date |-> 0, time |-> 0]
Fix(d, tm) == [ok |-> TRUE, date |-> d, time |-> tm]

AllPids == {pids[i] : i \in 1..Len(pids)}


AckOk == Always(Always(Reply(<<>>)))
AckFails == Always(Always(SendFails))
AckLate == <<Always(SendFails), Always(Reply(<<>>)), Always(Reply(<<>>))>>

LoginAttempt(open, o) == [open |-> open, notify |-> Always(o)]
LoginGood == Always(LoginAttempt(TRUE, Reply(Seal(LoginReply))))
LoginCorrupt == Always(LoginAttempt(TRUE, Reply(Corrupt(LoginReply))))
LoginMixed ==
  <<LoginAttempt(FALSE, SendFails),
    LoginAttempt(TRUE, Reply(Seal(LoginWrongEvent))),
    [open |-> TRUE, notify |-> <<SendFails, NoReply, Reply(Seal(LoginReply))>>]>>

WifiUp == <<TRUE, TRUE, TRUE>>
WifiLate == <<FALSE, FALSE, TRUE>>
WifiDown == <<FALSE, FALSE, FALSE>>

\* what setup() may meet; soft: whether the motion source, the position
\* source and the storage come up
SetupInput(dt, soft, obdInit, wifi, lg) ==
  [dt |-> dt, memsOk |-> soft, gpsOk |-> soft, storeOk |-> soft,
   obdInit |-> obdInit, wifi |-> wifi, login |-> lg]

\* what one iteration of the run loop may meet
LoopInput(dt, speed, dg, ack, sendOk, serial) ==
  [dt |-> dt, speed |-> speed, pids |-> AllPids, tier2Ok |-> TRUE, stray |-> "STRAY",
   gps |-> NoFix, dg |-> dg, obdOk |-> TRUE, ack |-> ack, sendOk |-> sendOk,
   reopenOk |-> TRUE, serial |-> serial]

StandbyInput(dt, o) == [dt |-> dt, logout |-> Always(o)]

\* no call of notifyServer is under study
NoCall == [event |-> 0, meets |-> <<>>, done |-> FALSE, ok |-> FALSE,
           connErrors0 |-> 0, feedid0 |-> 0]

(***************************************************************************)
(* Specification: session and connection health                            *)
(***************************************************************************)

SetupInputs ==
  {SetupInput(1000, soft, FALSE, WifiDown, LoginGood) : soft \in BOOLEAN} \cup
  {SetupInput(1000, soft, TRUE, WifiDown, LoginGood) : soft \in BOOLEAN} \cup
  {SetupInput(1000, soft, TRUE, w, lg) :
     soft \in BOOLEAN, w \in {WifiUp, WifiLate}, lg \in {LoginGood, LoginCorrupt, LoginMixed}}

LoopInputs ==
  {LoopInput(1000, speed, dg, AckOk, sendOk, <<>>) :
     speed \in {-1, 0}, dg \in {NoDatagram, Datagram(Seal(SyncMsg))}, sendOk \in BOOLEAN}

StandbyInputs == {StandbyInput(1000, o) : o \in {Reply(Seal(LogoutReply)), NoReply}}

Init ==
  /\ pc = "boot" /\ n = 0 /\ m_state = {} /\ connErrors = 0 /\ txCount = 0 /\ feedid = 0
  /\ lastCmdToken = 0 /\ m_ledMode = 0 /\ now = 0 /\ lastSentTime = 0 /\ lastSyncTime = 0
  /\ lastSpeedTime = 0 /\ lastSpeed = 0 /\ distance = 0 /\ cache = <<>> /\ errors = 0
  /\ count = 0 /\ lastUTC = 0 /\ lastGPSDay = 0 /\ ev = <<>> /\ executed = {}
  /\ reexec = FALSE /\ streak = 0 /\ rebuilds = 0 /\ presend = <<>>
  /\ frame = <<>> /\ sealed = <<>> /\ verdict = "none"
  /\ call = NoCall

Boot == \E in \in SetupInputs : BootOp(in.dt, in)
Standby == \E in \in StandbyInputs : StandbyOp(in.dt, in)
SetupRetry == \E in \in SetupInputs : SetupRetryOp(in.dt, in)
ShutDown == ShutDownOp
Recover == \E in \in SetupInputs : RecoverOp(in.dt, in)
RunLoop == \E in \in LoopInputs : RunLoopOp(in.dt, in)

Next == Boot \/ Standby \/ SetupRetry \/ ShutDown \/ Recover \/ RunLoop

Spec == Init /\ [][Next]_vars


(***************************************************************************)
(* Properties: cache rotation, health escalation, readiness                *)
(***************************************************************************)

\* the last handler was a run-loop iteration that attempted a data send
SendAttempted == pc = "run" /\ Has(ev, "tailer")
SendFailed == SendAttempted /\ HasOk(ev, "netSend", 0, FALSE)
SendSucceeded == SendAttempted /\ HasOk(ev, "netSend", 0, TRUE)

\* op comes right before the data send in the handler's log
RightBeforeSend(op) ==
  \E i \in 1..(Len(ev) - 1) : ev[i].op = op /\ ev[i + 1].op = "netSend" /\ ev[i + 1].a = 0

\* C2: in a run-loop iteration that attempts a data send the cache is sealed
\* right before the send; after a failed send the trailer is gone and the
\* cache is exactly what it was before sealing; the cache is purged and
\* reopened with the header of the current feed only after a successful send.
C2_CacheRotation ==
  /\ SendAttempted => RightBeforeSend("tailer")
  /\ SendFailed => /\ cache = presend
                   /\ Samples(cache) = Samples(presend)
                   /\ ~Has(ev, "header")
                   /\ \A i \in 1..Len(cache) : cache[i].k # "tailer"
  /\ SendSucceeded => cache = cacheHeader(feedid)
  /\ (pc = "run" /\ Has(ev, "header")) => SendSucceeded

\* a failed send that left samples in the cache
C2_Witness == SendFailed /\ cacheSamples(cache) >= 2

\* C3: from an error counter of zero, MAX_CONN_ERRORS_RECONNECT failed send
\* cycles in a row bring exactly one link rebuild (netClose, then netOpen),
\* in the last of them; a successful send sets the error counter to zero.
C3_HealthEscalation ==
  /\ streak \in 1..(MAX_CONN_ERRORS_RECONNECT - 1) => rebuilds = 0 /\ ~Has(ev, "netClose")
  /\ streak > 0 => connErrors = streak
  /\ streak = MAX_CONN_ERRORS_RECONNECT =>
       /\ rebuilds = 1
       /\ \E i \in 1..(Len(ev) - 1) : ev[i].op = "netClose" /\ ev[i + 1].op = "netOpen"
  /\ SendSucceeded => connErrors = 0

\* the third failed send in a row has rebuilt the link
C3_Witness == streak = MAX_CONN_ERRORS_RECONNECT /\ rebuilds = 1

\* a successful send has cleared a counter that failures had raised
C3_WitnessReset == SendSucceeded /\ connErrors = 0

\* the last setup() reached login(), every LOGIN request went out and every
\* one was answered by a frame whose checksum does not validate
LoginAllCorrupt ==
  /\ Has(ev, "login")
  /\ HasOk(ev, "netSend", EVENT_LOGIN, TRUE)
  /\ ~HasOk(ev, "netSend", EVENT_LOGIN, FALSE)
  /\ ~HasOk(ev, "netReceive", EVENT_LOGIN, FALSE)
  /\ ~HasOk(ev, "checksum", EVENT_LOGIN, TRUE)
  /\ ~HasOk(ev, "netOpen", 0, FALSE)

LoginRequests == Cardinality({i \in 1..Len(ev) : ev[i].op = "netSend" /\ ev[i].a = EVENT_LOGIN})
LoginTries == Cardinality({i \in 1..Len(ev) : ev[i].op = "login"})

\* C6 as claimed: with every LOGIN reply corrupted, login() fails after 3
\* attempts with 3 LOGIN requests sent, and neither the network-link flag nor
\* the session flag is set afterwards.
C6_AsClaimed ==
  LoginAllCorrupt =>
    /\ LoginTries = 3
    /\ LoginRequests = 3
    /\ STATE_NET_READY \notin m_state
    /\ STATE_CONNECTED \notin m_state

\* C6 amended: with every LOGIN reply corrupted, login() fails after its 3
\* attempts, each of which sends the request 3 times (9 requests); setup()
\* then leaves AllSystemsGo clear, the network-link flag set as the WIFI
\* bring-up set it, and the session flag as it was (clear after boot or
\* standby, still set when the set-up follows shutDownNet()).
C6_LoginCorrupted ==
  LoginAllCorrupt =>
    /\ LoginTries = LOGIN_ATTEMPTS
    /\ LoginRequests = LOGIN_ATTEMPTS * NOTIFY_ATTEMPTS
    /\ STATE_ALL_GOOD \notin m_state
    /\ STATE_NET_READY \in m_state
    /\ (~Has(ev, "netEnd") => STATE_CONNECTED \notin m_state)
    /\ (Has(ev, "netEnd") => STATE_CONNECTED \in m_state)

C6_Witness == LoginAllCorrupt /\ LoginRequests = 9 /\ pc = "wake"

\* C7 as claimed: AllSystemsGo only with every enabled subsystem ready.
C7_AsClaimed ==
  STATE_ALL_GOOD \in m_state =>
    {STATE_MEMS_READY, STATE_OBD_READY, STATE_GPS_READY, STATE_STORAGE_READY,
     STATE_NET_READY, STATE_CONNECTED} \subseteq m_state

\* C7 amended: AllSystemsGo is set only when the vehicle-bus and the session
\* flags are set, and the network-link flag too except between shutDownNet()
\* and setup() of the hard-threshold recovery; the motion-source,
\* position-source and storage flags may be clear.
C7_AllGoodCore ==
  STATE_ALL_GOOD \in m_state =>
    /\ {STATE_OBD_READY, STATE_CONNECTED} \subseteq m_state
    /\ (pc # "recover" => STATE_NET_READY \in m_state)

\* all good with the position source, the motion source and the storage down
C7_Witness ==
  /\ STATE_ALL_GOOD \in m_state
  /\ m_state \cap {STATE_GPS_READY, STATE_MEMS_READY, STATE_STORAGE_READY} = {}
  /\ Has(ev, "polled")

\* C10 as claimed: the hard-threshold recovery logs out, tears the link down
\* and rebuilds it, and leaves the cached samples as they were.
C10_AsClaimed ==
  [][pc = "recover" =>
       /\ Samples(cache') = Samples(cache)
       /\ HasOk(ev', "netSend", EVENT_LOGOUT, TRUE)]_vars

\* the part of C10 about the cache alone
C10_CacheKept == [][pc = "recover" => Samples(cache') = Samples(cache)]_vars


(***************************************************************************)
(* Specification: verifyChecksum on sealed frames and their mutations      *)
(***************************************************************************)

PayloadBytes == {"*", "0", "A", "NUL"}
MutationBytes == PayloadBytes \cup {"8", "+"}

RECURSIVE Payloads(_)
Payloads(k) ==
  IF k = 0 THEN {<<>>}
  ELSE Payloads(k - 1) \cup
       {Append(q, b) : q \in {r \in Payloads(k - 1) : Len(r) = k - 1}, b \in PayloadBytes}

InitChk ==
  /\ pc = "boot" /\ n = 0 /\ m_state = {} /\ connErrors = 0 /\ txCount = 0 /\ feedid = 0
  /\ lastCmdToken = 0 /\ m_ledMode = 0 /\ now = 0 /\ lastSentTime = 0 /\ lastSyncTime = 0
  /\ lastSpeedTime = 0 /\ lastSpeed = 0 /\ distance = 0 /\ cache = <<>> /\ errors = 0
  /\ count = 0 /\ lastUTC = 0 /\ lastGPSDay = 0 /\ ev = <<>> /\ executed = {}
  /\ reexec = FALSE /\ streak = 0 /\ rebuilds = 0 /\ presend = <<>>
  /\ \E q \in Payloads(MaxPayload) : sealed = Seal(q) /\ frame = Seal(q)
  /\ verdict = "none"
  /\ call = NoCall

\* verifyChecksum is applied to the frame
VerifyFrame ==
  /\ verdict = "none"
  /\ verdict' = IF verifyChecksum(frame).ok THEN "accepted" ELSE "rejected"
  /\ UNCHANGED <<devVars, frame, sealed, call>>

\* exactly one byte of the sealed frame changes on the way
MutateFrame ==
  /\ frame = sealed
  /\ \E i \in 1..Len(frame), b \in MutationBytes :
       /\ b # frame[i]
       /\ frame' = [frame EXCEPT ![i] = b]
  /\ verdict' = "none"
  /\ UNCHANGED <<devVars, sealed, call>>

NextChk == VerifyFrame \/ MutateFrame

SpecChk == InitChk /\ [][NextChk]_vars

\* the payload of the sealed frame: what precedes its trailer
SealedPayload == SubSeq(sealed, 1, Len(sealed) - 3)
PlainPayload == \A i \in 1..Len(SealedPayload) : SealedPayload[i] \notin {"*", "NUL"}

C8_Undetected == frame # sealed /\ verdict = "accepted"


(***************************************************************************)
(* Specification: notifyServer against every behaviour of the transport    *)
(***************************************************************************)

\* what one attempt may meet: a failed send, no reply, or one of these replies
ReplyBytes(c) ==
  CASE c = "ev1"       -> Seal(LoginReply)
    [] c = "ev2"       -> Seal(LogoutReply)
    [] c = "feed2"     -> Seal(LoginWrongEvent)
    [] c = "corrupt"   -> Corrupt(LoginReply)
    [] c = "corrupt2"  -> Corrupt(LogoutReply)
    [] c = "unframed"  -> LoginReply
    [] OTHER           -> <<>>

Meetings == {"sendfail", "noreply", "ev1", "ev2", "feed2", "corrupt", "corrupt2", "unframed"}

Outcome(c) ==
  IF c = "sendfail" THEN SendFails
  ELSE IF c = "noreply" THEN NoReply
  ELSE Reply(ReplyBytes(c))

\* the device as set-up leaves it after a login that worked, under one of two
\* feeds, with the error counter at its least or at its most in the run loop
Booted == setup([InitState EXCEPT !.now = 1000],
                SetupInput(1000, TRUE, TRUE, WifiUp, LoginGood)).s

InitNotify ==
  /\ pc = "run" /\ n = 0 /\ m_state = Booted.m_state
  /\ connErrors \in {0, MAX_CONN_ERRORS - 1}
  /\ txCount = 0 /\ feedid \in {Booted.feedid, 7}
  /\ lastCmdToken = 0 /\ m_ledMode = 0 /\ now = 1000 /\ lastSentTime = 0
  /\ lastSyncTime = Booted.lastSyncTime
  /\ lastSpeedTime = 0 /\ lastSpeed = 0 /\ distance = 0 /\ cache = cacheHeader(feedid) /\ errors = 0
  /\ count = 0 /\ lastUTC = 0 /\ lastGPSDay = 0 /\ ev = <<>> /\ executed = {}
  /\ reexec = FALSE /\ streak = 0 /\ rebuilds = 0 /\ presend = <<>>
  /\ frame = <<>> /\ sealed = <<>> /\ verdict = "none"
  /\ \E e \in {EVENT_LOGIN, EVENT_LOGOUT, EVENT_ACK}, m \in [1..NOTIFY_ATTEMPTS -> Meetings] :
       call = [event |-> e, meets |-> m, done |-> FALSE, ok |-> FALSE,
               connErrors0 |-> connErrors, feedid0 |-> feedid]

\* the call is made
NotifyCall ==
  /\ ~call.done
  /\ LET r == notifyServer(Cur(0), call.event,
                           [a \in 1..NOTIFY_ATTEMPTS |-> Outcome(call.meets[a])])
     IN /\ AssignDev(r.s)
        /\ call' = [call EXCEPT !.done = TRUE, !.ok = r.ok]
  /\ UNCHANGED chkVars

NextNotify == NotifyCall

SpecNotify == InitNotify /\ [][NextNotify]_vars

\* attempt a of the call under study completes the round trip: the send
\* works and, unless the event is ACK, a sealed reply with the request's
\* EV=<event> comes back
RoundTrip(a) ==
  /\ call.meets[a] # "sendfail"
  /\ \/ call.event = EVENT_ACK
     \/ call.event = EVENT_LOGIN /\ call.meets[a] = "ev1"
     \/ call.event = EVENT_LOGOUT /\ call.meets[a] \in {"ev2", "feed2"}

Requests == Cardinality({i \in 1..Len(ev) : ev[i].op = "netSend"})
Reads == Cardinality({i \in 1..Len(ev) : ev[i].op = "netReceive"})

\* C5: notifyServer succeeds exactly when one of its 3 attempts completes
\* the round trip (for ACK: the send alone, no reply is read); when it fails
\* the error counter and the feed identifier are as before the call.
C5_NotifyServer ==
  call.done =>
    /\ call.ok = (\E a \in 1..NOTIFY_ATTEMPTS : RoundTrip(a))
    /\ ~call.ok => /\ connErrors = call.connErrors0
                   /\ feedid = call.feedid0
                   /\ Requests = NOTIFY_ATTEMPTS
    /\ call.ok => Requests = (CHOOSE a \in 1..NOTIFY_ATTEMPTS :
                                RoundTrip(a) /\ \A b \in 1..(a - 1) : ~RoundTrip(b))
    /\ call.event = EVENT_ACK => Reads = 0 /\ connErrors = call.connErrors0
    /\ (call.ok /\ call.event # EVENT_ACK) => connErrors = 0
    /\ (call.ok /\ call.event = EVENT_LOGIN) => feedid = 2

\* a LOGIN that met a corrupted reply, then a reply to another event, then
\* no reply: it failed and changed neither counter nor feed
C5_Witness ==
  /\ call.done /\ ~call.ok /\ call.event = EVENT_LOGIN
  /\ call.meets = <<"corrupt", "feed2", "noreply">> /\ feedid = 7
  /\ connErrors = MAX_CONN_ERRORS - 1


(***************************************************************************)
(* Specification: inbound datagrams and commands                           *)
(***************************************************************************)

\* what the server may put in front of the run loop
Datagrams ==
  {NoDatagram,
   Datagram(Seal(SyncMsg)), Datagram(Corrupt(SyncMsg)), Datagram(SyncMsg),
   Datagram(Seal(CmdLed)), Datagram(Corrupt(CmdLed)), Datagram(CmdLed),
   Datagram(Seal(CmdStandby)), Datagram(Seal(CmdReboot)),
   Datagram(Seal(CmdNoToken)), Datagram(Seal(CmdNoText))}

SetupInputsCmd == {SetupInput(1000, TRUE, TRUE, WifiUp, LoginGood)}

LoopInputsCmd ==
  {LoopInput(1000, 0, dg, ack, sendOk, <<>>) :
     dg \in Datagrams, ack \in {AckOk, AckLate, AckFails}, sendOk \in BOOLEAN}

StandbyInputsCmd == {StandbyInput(1000, Reply(Seal(LogoutReply)))}

BootCmd == \E in \in SetupInputsCmd : BootOp(in.dt, in)
StandbyCmd == \E in \in StandbyInputsCmd : StandbyOp(in.dt, in)
SetupRetryCmd == \E in \in SetupInputsCmd : SetupRetryOp(in.dt, in)
ShutDownCmd == ShutDownOp
RecoverCmd == \E in \in SetupInputsCmd : RecoverOp(in.dt, in)
RunLoopCmd == \E in \in LoopInputsCmd : RunLoopOp(in.dt, in)

NextCmd == BootCmd \/ StandbyCmd \/ SetupRetryCmd \/ ShutDownCmd \/ RecoverCmd \/ RunLoopCmd

SpecCmd == Init /\ [][NextCmd]_vars

\* C1: no command token is executed twice: the first datagram with token T
\* executes the command, a later one with the same T does not.
C1_AsClaimed == ~reexec

\* the run loop has just executed token 5 for the second time, and
\* acknowledged it with the result, not with DUP=1
C1_ExecutedTwice ==
  /\ reexec
  /\ HasOk(ev, "execute", 5, TRUE)
  /\ \E i \in 1..Len(ev) : ev[i].op = "ack" /\ ev[i].a = 5 /\ ev[i].msg = "OK"
  /\ lastCmdToken = 0

\* the last handler was a run-loop iteration that read a datagram which
\* verifyChecksum refused
DatagramRejected == pc = "run" /\ HasOk(ev, "datagram", 0, FALSE)

\* C4: a datagram whose checksum does not validate, or that has no '*', is
\* dropped by the run loop: no command is executed, no ACK is sent and the
\* last-sync time is not set to the time of the iteration.
C4_BadDatagramRejected ==
  DatagramRejected =>
    /\ ~Has(ev, "execute")
    /\ ~Has(ev, "ack")
    /\ \A i \in 1..Len(ev) : ev[i].op = "netSend" => ev[i].a # EVENT_ACK
    /\ ~Has(ev, "sync")
    /\ lastSyncTime # now

\* a rejected datagram in an iteration that went on to send data
C4_Witness == DatagramRejected /\ SendSucceeded /\ m_ledMode = 0


(***************************************************************************)
(* Specification: speed readings and the trip distance                     *)
(***************************************************************************)

\* km/h read from the vehicle; -1 is a read that fails
Speeds == {-1, 40, 255}

SetupInputsDist == {SetupInput(1000, TRUE, TRUE, WifiUp, LoginGood)}

LoopInputsDist ==
  {LoopInput(dt, speed, Datagram(Seal(SyncMsg)), AckOk, sendOk, <<>>) :
     dt \in {1000, 2000}, speed \in Speeds, sendOk \in BOOLEAN}

StandbyInputsDist == {StandbyInput(1000, Reply(Seal(LogoutReply)))}

BootDist == \E in \in SetupInputsDist : BootOp(in.dt, in)
StandbyDist == \E in \in StandbyInputsDist : StandbyOp(in.dt, in)
SetupRetryDist == \E in \in SetupInputsDist : SetupRetryOp(in.dt, in)
ShutDownDist == ShutDownOp
RecoverDist == \E in \in SetupInputsDist : RecoverOp(in.dt, in)
RunLoopDist == \E in \in LoopInputsDist : RunLoopOp(in.dt, in)

NextDist == BootDist \/ StandbyDist \/ SetupRetryDist \/ ShutDownDist \/ RecoverDist \/ RunLoopDist

SpecDist == Init /\ [][NextDist]_vars

\* C9 as stated: the trip distance never decreases from one step of the
\* device to the next, re-runs of setup() included.
C9_AsClaimed == [][distance' >= distance]_vars

\* C9: the trip distance never decreases in a step that does not run
\* setup(), and every run of setup() leaves it at 0.
C9_DistanceMonotonic ==
  [][/\ ~Has(ev', "setup") => distance' >= distance
     /\ Has(ev', "setup") => distance' = 0]_vars

\* a reading at 255 km/h has just been added to a distance already travelled
C9_Witness ==
  /\ pc = "run" /\ Has(ev, "polled") /\ ~Has(ev, "setup")
  /\ lastSpeed = 255 /\ lastSpeedTime = now
  /\ distance > 2 * ((255 * 2000) \div 3600)


(***************************************************************************)
(* Properties: the end of a trip                                           *)
(***************************************************************************)

\* C11: a run-loop iteration that ends with more than MAX_OBD_ERRORS read
\* errors has cleared the vehicle-bus flag and AllSystemsGo; the next step of
\* the outer loop is standby(), which sets the feed identifier to zero; a
\* standby() entered with the errors within the budget leaves the feed
\* identifier as it was.
C11_ObdErrorsEndTrip ==
  [][/\ (Has(ev', "polled") /\ errors' > MAX_OBD_ERRORS) =>
          m_state' \cap {STATE_OBD_READY, STATE_ALL_GOOD} = {}
     /\ (pc = "run" /\ errors > MAX_OBD_ERRORS) => Has(ev', "standby") /\ feedid' = 0
     /\ (Has(ev', "standby") /\ errors <= MAX_OBD_ERRORS) => feedid' = feedid]_vars

\* a session that was logged in is in standby with the error budget exceeded
\* and the feed identifier reset
C11_Witness ==
  /\ pc = "wake" /\ Has(ev, "standby") /\ errors > MAX_OBD_ERRORS
  /\ Has(ev, "netSend") /\ feedid = 0

\* a session that was logged in is in standby for another reason, and keeps
\* its feed identifier
C11_WitnessKept ==
  /\ pc = "wake" /\ Has(ev, "standby") /\ errors <= MAX_OBD_ERRORS
  /\ feedid # 0


(***************************************************************************)
(* Specification: processCommand on one COMMAND datagram                   *)
(***************************************************************************)

\* a COMMAND datagram with neither field
CmdBare == <<"E", "V", "=", "3">>

\* the payloads handed to processCommand
Commands == {CmdLed, CmdStandby, CmdReboot, CmdNoToken, CmdNoText, CmdBare}
Incomplete == {CmdNoToken, CmdNoText, CmdBare}

\* the device in its run loop, all good, a COMMAND datagram just verified
InitCmd ==
  /\ pc = "run" /\ n = 0 /\ m_state = Booted.m_state
  /\ connErrors \in 0..(MAX_CONN_ERRORS - 1)
  /\ txCount = 0 /\ feedid = Booted.feedid
  /\ lastCmdToken = 0 /\ m_ledMode \in {0, 1, 2} /\ now = 2000 /\ lastSentTime = 0
  /\ lastSyncTime = Booted.lastSyncTime
  /\ lastSpeedTime = 0 /\ lastSpeed = 0 /\ distance = 0 /\ cache = Booted.cache /\ errors = 0
  /\ count = 0 /\ lastUTC = 0 /\ lastGPSDay = 0 /\ ev = <<>> /\ executed = {}
  /\ reexec = FALSE /\ streak = 0 /\ rebuilds = 0 /\ presend = <<>>
  /\ frame \in Commands /\ sealed = <<>> /\ verdict = "none"
  /\ call = NoCall

\* processCommand(data) is called
ProcessCommandCall ==
  /\ verdict = "none"
  /\ \E ack \in {AckOk, AckLate, AckFails} :
       AssignDev(processCommand(Cur(0), frame,
                                LoopInput(0, 0, NoDatagram, ack, TRUE, <<>>)))
  /\ verdict' = "done"
  /\ UNCHANGED <<frame, sealed, call>>

NextProc == ProcessCommandCall

SpecProc == InitCmd /\ [][NextProc]_vars

\* C12: processCommand on a datagram without TK= or without CMD= executes
\* nothing, sends nothing, and leaves the token, the indicator mode, the
\* flags and the error counter as they were.
C12_IncompleteIgnored ==
  [][(frame \in Incomplete) =>
       /\ ev' = <<>> /\ executed' = {}
       /\ lastCmdToken' = lastCmdToken /\ m_state' = m_state
       /\ m_ledMode' = m_ledMode /\ connErrors' = connErrors]_vars

\* processCommand has returned from a command with CMD= and no TK=
C12_Witness == verdict = "done" /\ frame = CmdNoToken /\ m_ledMode = 0 /\ ev = <<>>


(***************************************************************************)
(* Properties: set-up                                                      *)
(***************************************************************************)

\* the last handler ran setup(); what its log tells of that invocation
SetupRan == Has(ev, "setup")
LinkBroughtUp == \E i \in 1..Len(ev) : ev[i].op = "netBegin" /\ ev[i].ok
LinkAttempts == Cardinality({i \in 1..Len(ev) : ev[i].op = "netBegin"})
LoginSucceeded ==
  /\ Len(ev) > 0
  /\ ev[Len(ev)].op = "checksum" /\ ev[Len(ev)].a = EVENT_LOGIN /\ ev[Len(ev)].ok

\* C13: setup() ends with AllSystemsGo set exactly when the vehicle bus is
\* ready, the network link was brought up in that invocation and login
\* succeeded.
C13_AsClaimed ==
  SetupRan =>
    (STATE_ALL_GOOD \in m_state) =
       (STATE_OBD_READY \in m_state /\ LinkBroughtUp /\ LoginSucceeded)

\* setup() has set AllSystemsGo although its 3 bring-up attempts all failed
C13_StaleLink ==
  /\ SetupRan /\ STATE_ALL_GOOD \in m_state
  /\ LinkAttempts = WIFI_ATTEMPTS /\ ~LinkBroughtUp


(***************************************************************************)
(* Properties: the outer loop with AllSystemsGo clear                      *)
(***************************************************************************)

\* set-up and standby take a tenth of a second, so that a whole retry loop
\* with its two or three sleeps fits in the uptime of the model
SetupInputsRetry ==
  {SetupInput(100, TRUE, obdInit, w, lg) :
     obdInit \in BOOLEAN, w \in {WifiUp, WifiDown}, lg \in {LoginGood, LoginCorrupt}}

LoopInputsRetry ==
  {LoopInput(1000, speed, Datagram(Seal(d)), AckOk, TRUE, <<>>) :
     speed \in {-1, 0}, d \in {SyncMsg, CmdStandby}}

StandbyInputsRetry == {StandbyInput(100, o) : o \in {Reply(Seal(LogoutReply)), NoReply}}

BootRetry == \E in \in SetupInputsRetry : BootOp(in.dt, in)
StandbyRetry == \E in \in StandbyInputsRetry : StandbyOp(in.dt, in)
SetupRetryRetry == \E in \in SetupInputsRetry : SetupRetryOp(in.dt, in)
RunLoopRetry == \E in \in LoopInputsRetry : RunLoopOp(in.dt, in)

\* every send works and every iteration sees a datagram of the server: the
\* error counter stays at 0 and the hard-threshold recovery never runs
NextRetry == BootRetry \/ StandbyRetry \/ SetupRetryRetry \/ RunLoopRetry

SpecRetry == Init /\ [][NextRetry]_vars

\* nothing of the run loop is in the log of the step
NoRunLoop(evs) == ~Has(evs, "polled") /\ ~Has(evs, "tailer") /\ ~HasOk(evs, "netSend", 0, TRUE)
                  /\ ~HasOk(evs, "netSend", 0, FALSE)

\* C14: an outer-loop iteration that starts with AllSystemsGo clear runs
\* standby() once, then setup() up to 3 times, ending at the first one that sets
\* AllSystemsGo or after the third, with no sensor polling and no data send.
C14_StandbyThenSetup ==
  [][/\ (pc = "run" /\ STATE_ALL_GOOD \notin m_state) =>
          /\ Count(ev', "standby", 0) = 1 /\ ~Has(ev', "setup") /\ NoRunLoop(ev')
          /\ pc' = "wake" /\ n' = 0
     /\ pc = "wake" =>
          /\ n < SETUP_RETRIES
          /\ Count(ev', "setup", 0) = 1 /\ ~Has(ev', "standby") /\ NoRunLoop(ev')
          /\ STATE_ALL_GOOD \in m_state' => pc' = "run" /\ n' = n
          /\ STATE_ALL_GOOD \notin m_state' =>
               /\ n' = n + 1
               /\ pc' = IF n' < SETUP_RETRIES THEN "wake" ELSE "run"]_vars

\* the third setup() of an iteration has failed and the iteration is over
C14_Witness == pc = "run" /\ n = SETUP_RETRIES /\ SetupRan /\ STATE_ALL_GOOD \notin m_state

\* the second setup() of an iteration has set AllSystemsGo
C14_WitnessStop == pc = "run" /\ n = 1 /\ SetupRan /\ STATE_ALL_GOOD \in m_state


(***************************************************************************)
(* Properties: standby                                                     *)
(***************************************************************************)

\* where the log has LOGOUT requests, and where it has the link closed
LogoutSends(evs) == {i \in 1..Len(evs) : evs[i].op = "netSend" /\ evs[i].a = EVENT_LOGOUT}
LinkCloses(evs) == {i \in 1..Len(evs) : evs[i].op \in {"netClose", "netEnd"}}

\* C15: standby() sends LOGOUT exactly when it is entered session-connected
\* with the link ready, and before it closes the link; it reaches its wait
\* with the link, session, vehicle-bus, position and storage flags clear and
\* the motion flag as it was.
C15_Standby ==
  [][Has(ev', "standby") =>
       /\ (LogoutSends(ev') # {}) = ({STATE_NET_READY, STATE_CONNECTED} \subseteq m_state)
       /\ \A i \in LogoutSends(ev'), j \in LinkCloses(ev') : i < j
       /\ (LinkCloses(ev') # {}) = (STATE_NET_READY \in m_state)
       /\ m_state' \cap {STATE_NET_READY, STATE_CONNECTED, STATE_OBD_READY,
                         STATE_GPS_READY, STATE_STORAGE_READY} = {}
       /\ (STATE_MEMS_READY \in m_state') = (STATE_MEMS_READY \in m_state)]_vars

\* standby() has logged out, closed the link and kept the motion flag
C15_Witness ==
  /\ pc = "wake" /\ Has(ev, "standby")
  /\ LogoutSends(ev) # {} /\ LinkCloses(ev) # {}
  /\ m_state = {STATE_MEMS_READY}

\* standby() entered with the link ready and no session: no LOGOUT
C15_WitnessNoSession ==
  /\ pc = "wake" /\ Has(ev, "standby")
  /\ LogoutSends(ev) = {} /\ LinkCloses(ev) # {}


(***************************************************************************)
(* Specification: the run loop at two paces                                *)
(***************************************************************************)

SetupInputsSend == {SetupInput(1000, TRUE, TRUE, WifiUp, LoginGood)}

\* an iteration comes half a second or a second after the handler before it
LoopInputsSend ==
  {LoopInput(dt, 0, dg, AckOk, sendOk, <<>>) :
     dt \in {500, 1000}, dg \in {NoDatagram, Datagram(Seal(SyncMsg))}, sendOk \in BOOLEAN}

BootSend == \E in \in SetupInputsSend : BootOp(in.dt, in)
ShutDownSend == ShutDownOp
RecoverSend == \E in \in SetupInputsSend : RecoverOp(in.dt, in)
RunLoopSend == \E in \in LoopInputsSend : RunLoopOp(in.dt, in)

\* set-up always works and the vehicle bus always answers: AllSystemsGo
\* stays set and standby() never runs
NextSend == BootSend \/ ShutDownSend \/ RecoverSend \/ RunLoopSend

SpecSend == Init /\ [][NextSend]_vars

\* the step is a run-loop iteration; the samples in the cache after its polling
Iterated(evs) == Has(evs, "polled")
Polled(evs) == (CHOOSE i \in 1..Len(evs) : evs[i].op = "polled")
DataSends(evs) == {i \in 1..Len(evs) : evs[i].op = "netSend" /\ evs[i].a = 0}

\* C16: in a run-loop iteration that saw no SYNC and starts
\* SERVER_SYNC_INTERVAL seconds or more after the last one, the error counter
\* goes up by one, nothing is sent and the cache is neither sealed nor
\* purged; in any other iteration one data send is attempted if the sending
\* interval has elapsed and the cache holds a sample, and none otherwise.
C16_SyncPolicy ==
  [][Iterated(ev') =>
       LET stale == /\ SERVER_SYNC_INTERVAL # 0
                    /\ ~Has(ev', "sync")
                    /\ WSub(now', lastSyncTime) >= SERVER_SYNC_INTERVAL * 1000
           due   == /\ WSub(now', lastSentTime) >= DATA_SENDING_INTERVAL
                    /\ ev'[Polled(ev')].a > 0
       IN /\ stale => /\ connErrors' = connErrors + 1
                      /\ DataSends(ev') = {}
                      /\ ~Has(ev', "tailer") /\ ~Has(ev', "header")
                      /\ cacheSamples(cache') = ev'[Polled(ev')].a
                      /\ \A i \in 1..Len(cache') : cache'[i].k # "tailer"
          /\ ~stale => Cardinality(DataSends(ev')) = (IF due THEN 1 ELSE 0)]_vars

\* an iteration has counted a missing SYNC and sent nothing
C16_Witness ==
  /\ pc = "run" /\ Has(ev, "nosync") /\ ~Has(ev, "tailer")
  /\ connErrors = 1 /\ cacheSamples(cache) > 1

\* an iteration in time for SYNC came too early to send
C16_WitnessEarly ==
  /\ pc = "run" /\ Has(ev, "polled") /\ ~Has(ev, "nosync") /\ ~Has(ev, "tailer")
  /\ now - lastSentTime = 500


(***************************************************************************)
(* Properties: the order of one run-loop iteration                         *)
(***************************************************************************)

\* where op is in the log
At(evs, op) == {i \in 1..Len(evs) : evs[i].op = op}
\* every index of I is below every index of J
Before(I, J) == \A i \in I, j \in J : i < j

\* C17: in the log of a run-loop iteration the sensor polling comes before
\* the datagram and the cache sealing, the sealing right before the data
\* send, the send before the error counter's update (with the purge or the
\* unsealing); one datagram at most is read, and the execution and the ACK
\* of its command come after it and before the data send, with no other
\* read from the transport.
C17_Ordering ==
  (pc = "run" /\ Iterated(ev)) =>
    /\ Cardinality(At(ev, "polled")) = 1
    /\ Before(At(ev, "tier2"), At(ev, "polled"))
    /\ Before(At(ev, "polled"), (1..Len(ev)) \ (At(ev, "tier2") \cup At(ev, "polled")))
    /\ Cardinality(At(ev, "datagram")) <= 1
    /\ At(ev, "netReceive") = {}
    /\ Before(At(ev, "polled"), At(ev, "datagram") \cup At(ev, "tailer"))
    /\ Before(At(ev, "datagram"), At(ev, "execute") \cup At(ev, "ack"))
    /\ Before(At(ev, "execute"), At(ev, "ack"))
    /\ Before(At(ev, "ack"), {i \in At(ev, "netSend") : ev[i].a = EVENT_ACK})
    /\ Before(At(ev, "execute") \cup At(ev, "ack")
                \cup {i \in At(ev, "netSend") : ev[i].a = EVENT_ACK},
              At(ev, "tailer"))
    /\ \A i \in DataSends(ev) : i - 1 \in At(ev, "tailer")
    /\ \A i \in At(ev, "header") \cup At(ev, "untailer") : i - 1 \in DataSends(ev)
    /\ Before(DataSends(ev), At(ev, "netClose") \cup At(ev, "netOpen"))
    /\ (Has(ev, "header") => connErrors = 0)
    /\ (Has(ev, "untailer") => connErrors > 0)

\* an iteration has polled, executed a command, acknowledged it at the
\* second try and then failed to send its data
C17_Witness ==
  /\ pc = "run" /\ Iterated(ev)
  /\ Has(ev, "execute") /\ HasOk(ev, "netSend", EVENT_ACK, FALSE)
  /\ HasOk(ev, "netSend", EVENT_ACK, TRUE) /\ SendFailed


(***************************************************************************)
(* Properties: the device temperature                                      *)
(***************************************************************************)

\* the temperature samples waiting in the cache
TempSamples == {i \in 1..Len(cache) : cache[i].k = "DEVICE_TEMP"}

\* C18: one run-loop iteration in 100 writes the temperature sample,
\* whatever becomes of the data sends: in a run of fewer than 100 iterations
\* the cache never holds two temperature samples.
C18_AsClaimed == Cardinality(TempSamples) <= 1

\* two iterations in a row have written the temperature: the send of the
\* first failed, so that txCount stayed at 1
C18_EveryIteration ==
  /\ pc = "run" /\ SendFailed /\ txCount = 1
  /\ Cardinality(TempSamples) = 2


(***************************************************************************)
(* Specification: the low-priority rotation of processOBD()                *)
(***************************************************************************)

\* the device is in its run loop after a set-up that worked
InitPoll ==
  /\ pc = "run" /\ n = 0 /\ m_state = Booted.m_state /\ connErrors = 0
  /\ txCount = 0 /\ feedid = Booted.feedid
  /\ lastCmdToken = 0 /\ m_ledMode = 0 /\ now = 1000 /\ lastSentTime = 0
  /\ lastSyncTime = Booted.lastSyncTime
  /\ lastSpeedTime = 0 /\ lastSpeed = 0 /\ distance = 0 /\ cache = cacheHeader(feedid) /\ errors = 0
  /\ count = 0 /\ lastUTC = 0 /\ lastGPSDay = 0 /\ ev = <<>> /\ executed = {}
  /\ reexec = FALSE /\ streak = 0 /\ rebuilds = 0 /\ presend = <<>>
  /\ frame = <<>> /\ sealed = <<>> /\ verdict = "none"
  /\ call = NoCall

\* what a call of processOBD() may meet: the speed reads, the low-priority
\* parameter reads or not
PollInputs ==
  {[LoopInput(0, 0, NoDatagram, AckOk, TRUE, <<>>) EXCEPT !.tier2Ok = ok] : ok \in BOOLEAN}

\* processOBD() is called once more; the vehicle stands still
ProcessOBDCall == \E in \in PollInputs : Assign(processOBD(Cur(in.dt), in))

NextPoll == ProcessOBDCall

SpecPoll == InitPoll /\ [][NextPoll]_vars

\* the table indices of the low-priority polls of the step
Tier2Indices(evs) == {evs[i].a : i \in At(evs, "tier2")}

\* C19: the index into the table of low-priority parameters is always one
\* of its 5 entries, 0..4.
C19_AsClaimed == Tier2Indices(ev) \subseteq 0..(Len(pidTier2) - 1)

\* the sixth poll, at the 251st call, reads past the table and polls the byte
\* found there as a parameter
C19_PastTable == count = 251 /\ HasOk(ev, "tier2", Len(pidTier2), TRUE)


(***************************************************************************)
(* Properties: the flags between two iterations of the outer loop          *)
(***************************************************************************)

\* loop() of the sketch is about to start or has just returned
AtBoundary == pc = "run"

\* the latest handler was the hard-threshold recovery: shutDownNet() outside standby()
Recovered == AtBoundary /\ Has(ev, "netEnd") /\ ~Has(ev, "standby")

\* C20: between two iterations of the outer loop, AllSystemsGo is set only
\* with the session, network-link and vehicle-bus flags set; the
\* hard-threshold recovery never returns with AllSystemsGo set and the
\* network-link flag clear.
C20_BoundaryFlags ==
  AtBoundary =>
    /\ (checkState(Cur(0), {STATE_ALL_GOOD}) =>
          /\ checkState(Cur(0), {STATE_CONNECTED})
          /\ checkState(Cur(0), {STATE_NET_READY})
          /\ checkState(Cur(0), {STATE_OBD_READY}))
    /\ (Recovered => ~(STATE_ALL_GOOD \in m_state /\ STATE_NET_READY \notin m_state))

\* the recovery has rebuilt the link and the session
C20_Witness ==
  /\ Recovered /\ Has(ev, "setup")
  /\ {STATE_ALL_GOOD, STATE_NET_READY, STATE_CONNECTED, STATE_OBD_READY} \subseteq m_state

\* the recovery has failed: it returns with the link down and AllSystemsGo clear
C20_WitnessFailed ==
  /\ Recovered /\ Has(ev, "setup")
  /\ STATE_ALL_GOOD \notin m_state /\ STATE_NET_READY \notin m_state


(***************************************************************************)
(* Properties: the budget of connection errors                             *)
(***************************************************************************)

\* logger.loop() has just returned with the error budget used up
BudgetSpent == pc = "run" /\ Has(ev, "polled") /\ connErrors >= MAX_CONN_ERRORS

\* a step that runs logger.loop() starts below the budget and adds at most one error
BodyWithinBudget ==
  Has(ev', "polled") =>
    /\ pc = "run" /\ connErrors < MAX_CONN_ERRORS
    /\ connErrors' <= connErrors + 1

\* after a run-loop body that used the budget up, the outer loop shuts the
\* link down, directly or within standby(), and goes on to setup()
SpentShutsDown ==
  BudgetSpent =>
    /\ ~Has(ev', "polled")
    /\ Has(ev', "netEnd")
    /\ pc' \in {"recover", "wake"}

\* the handler that follows the shutdown is setup()
ShutdownThenSetup == (pc \in {"recover", "wake"}) => Has(ev', "setup")

\* C21: the connection error counter never exceeds MAX_CONN_ERRORS: the
\* run-loop body starts only with the counter below MAX_CONN_ERRORS and adds
\* at most one to it, and once the counter has reached MAX_CONN_ERRORS the
\* next outer-loop iteration shuts the link down and runs setup() instead of
\* the run-loop body.
C21_ErrorBudget ==
  /\ [](connErrors <= MAX_CONN_ERRORS)
  /\ [][BodyWithinBudget /\ SpentShutsDown /\ ShutdownThenSetup]_vars

\* the budget was used up and the outer loop has shut the link down for the recovery
C21_Witness ==
  /\ pc = "recover" /\ connErrors = MAX_CONN_ERRORS
  /\ Has(ev, "netEnd") /\ ~Has(ev, "polled")

\* the budget was used up in the iteration that ended the trip: the link is
\* shut down by standby()
C21_WitnessStandby ==
  /\ pc = "wake" /\ connErrors = MAX_CONN_ERRORS
  /\ Has(ev, "standby") /\ Has(ev, "netEnd")


(***************************************************************************)
(* Specification: the run loop waiting for SYNC, with the outer loop       *)
(* called again for ever                                                   *)
(***************************************************************************)

SetupInputsSync == {SetupInput(1000, TRUE, TRUE, WifiUp, LoginGood)}

\* an iteration may read the speed or not, send or not, and see no datagram,
\* a SYNC, or a SYNC whose trailer is wrong
LoopInputsSync ==
  {LoopInput(1000, speed, dg, AckOk, sendOk, <<>>) :
     speed \in {-1, 0},
     dg \in {NoDatagram, Datagram(Seal(SyncMsg)), Datagram(Corrupt(SyncMsg))},
     sendOk \in BOOLEAN}

StandbyInputsSync == {StandbyInput(1000, Reply(Seal(LogoutReply)))}

BootSync == \E in \in SetupInputsSync : BootOp(in.dt, in)
StandbySync == \E in \in StandbyInputsSync : StandbyOp(in.dt, in)
SetupRetrySync == \E in \in SetupInputsSync : SetupRetryOp(in.dt, in)
ShutDownSync == ShutDownOp
RecoverSync == \E in \in SetupInputsSync : RecoverOp(in.dt, in)
RunLoopSync == \E in \in LoopInputsSync : RunLoopOp(in.dt, in)

NextSync ==
  BootSync \/ StandbySync \/ SetupRetrySync \/ ShutDownSync \/ RecoverSync \/ RunLoopSync

\* the outer loop has a handler to run: the recovery's shutdown takes no
\* time, every other handler takes its time out of the uptime of the model
CanStep ==
  \/ pc = "run" /\ STATE_ALL_GOOD \in m_state /\ connErrors >= MAX_CONN_ERRORS
  \/ \E in \in LoopInputsSync : now + in.dt <= MaxUptime * 1000

\* a handler runs, as seen on the position and the clock: each handler moves
\* one of the two
Tick ==
  /\ CanStep
  /\ pc' \in {"run", "wake", "recover"}
  /\ now' \in {now} \cup {now + in.dt : in \in LoopInputsSync}

\* the core calls loop() again as soon as it has returned
SpecSync == Init /\ [][NextSync]_vars /\ WF_<<pc, now>>(Tick)

\* the in-loop rebuild has zeroed the time of the last SYNC and none has come
\* since; the device has been up for longer than the SYNC interval
AwaitingSync ==
  /\ pc = "run" /\ STATE_ALL_GOOD \in m_state
  /\ SERVER_SYNC_INTERVAL # 0
  /\ lastSyncTime = 0 /\ now >= SERVER_SYNC_INTERVAL * 1000

\* the uptime of the model leaves room for the iterations up to MAX_CONN_ERRORS
RoomToCount ==
  now + (MAX_CONN_ERRORS - MAX_CONN_ERRORS_RECONNECT) * DATA_SENDING_INTERVAL
    <= MaxUptime * 1000

\* a run-loop iteration that waits for SYNC and gets none sends nothing,
\* counts one error and goes on waiting
WaitsForSync ==
  (AwaitingSync /\ Iterated(ev') /\ ~Has(ev', "sync")) =>
     /\ DataSends(ev') = {}
     /\ Has(ev', "nosync")
     /\ connErrors' = connErrors + 1
     /\ lastSyncTime' = 0

\* the wait has ended without SYNC
WaitOver == AwaitingSync /\ ~AwaitingSync' /\ ~Has(ev', "sync")

\* the wait ends without SYNC only with the counter at MAX_CONN_ERRORS
EndsAtBudget == WaitOver => connErrors' >= MAX_CONN_ERRORS

\* the wait ends without SYNC with the counter at MAX_CONN_ERRORS, or in an
\* iteration that has counted its error and cleared AllSystemsGo
EndsAtBudgetOrTripEnd ==
  WaitOver => \/ connErrors' >= MAX_CONN_ERRORS
              \/ /\ Iterated(ev') /\ STATE_ALL_GOOD \notin m_state'
                 /\ connErrors' = connErrors + 1

\* C22: after the in-loop rebuild has zeroed the time of the last SYNC, no
\* iteration sends data until a SYNC with a valid checksum comes; without
\* SYNC the error counter goes up by one in every iteration until it is
\* MAX_CONN_ERRORS, and the outer loop then shuts the link down and runs
\* setup().
C22_AsClaimed == [][WaitsForSync /\ EndsAtBudget /\ SpentShutsDown /\ ShutdownThenSetup]_vars

\* C22 amended: as C22, unless an iteration of the wait clears AllSystemsGo
\* (vehicle-bus read errors): the wait then ends in standby(), possibly with
\* the counter below MAX_CONN_ERRORS. As long as neither happens the counter
\* does reach MAX_CONN_ERRORS.
C22_SyncOrRecovery ==
  /\ [][WaitsForSync /\ EndsAtBudgetOrTripEnd /\ SpentShutsDown /\ ShutdownThenSetup]_vars
  /\ (AwaitingSync /\ RoomToCount) ~>
       (Has(ev, "sync") \/ connErrors >= MAX_CONN_ERRORS \/ STATE_ALL_GOOD \notin m_state)

\* the wait has ended in the hard-threshold recovery: the counter was at
\* MAX_CONN_ERRORS, the link is shut down and setup() has run
C22_Witness ==
  /\ Recovered /\ Has(ev, "setup") /\ ~Has(ev, "polled")
  /\ connErrors = 0 /\ lastSyncTime = now

\* the wait has ended with AllSystemsGo cleared and the counter below MAX_CONN_ERRORS
C22_WitnessTripEnded ==
  /\ pc = "run" /\ Has(ev, "nosync") /\ STATE_ALL_GOOD \notin m_state
  /\ lastSyncTime = 0 /\ connErrors = MAX_CONN_ERRORS - 1

====
